---- MODULE Spec2Model ----
(***************************************************************************)
(* Model of fetch_bitcoin_data.py: the incremental fetch-and-merge         *)
(* pipeline for 5-minute BTC-USD candles.                                  *)
(*                                                                         *)
(* Instants are whole seconds since the Unix epoch (the unit of the        *)
(* provider's candle timestamps), so pd.to_datetime(ts, unit='s') maps an  *)
(* integer to the instant with the same number, and timedelta arithmetic   *)
(* is integer addition.                                                    *)
(***************************************************************************)
EXTENDS Integers, Sequences, FiniteSets, TLC

VARIABLES
    file_coinbase,  \* FILE_COINBASE on disk
    file_combined,  \* FILE_COMBINED on disk
    now,            \* datetime.now(timezone.utc), the wall clock
    pc,             \* position of the process
    caller,         \* who called the running function: "main" or "direct"
    start_dt,       \* fetch_coinbase_data argument
    end_dt,         \* fetch_coinbase_data argument
    current,        \* chunk cursor of the fetch loop
    request_count,  \* fetch loop's request counter
    all_data,       \* raw candles accumulated by the fetch loop
    new_data,       \* DataFrame returned by the fetch / given to the merge
    final_data,     \* DataFrame returned by update_dataset
    exit_via,       \* how main ended: "up_to_date", "report", "raised"
                    \* (update_dataset raised), "fetch_raised"
    budget,         \* transient failures the provider may still answer with
    supply,         \* candles the provider may still send to this invocation
    uncounted,      \* requests.get calls that raised before being counted
    last_req,       \* parameters of the most recent request, <<>> if none
    past_window,    \* end_dt was not after the clock when the fetch began
    pre_merge,      \* FILE_COINBASE as the process's update_dataset found it
    gap             \* chunk skipped last, in this run or in an earlier run
                    \* that persisted later data; <<>> if none, Untracked if
                    \* the specification keeps no record of skips

vars == <<file_coinbase, file_combined, now, pc, caller, start_dt, end_dt,
          current, request_count, all_data, new_data, final_data, exit_via,
          budget, supply, uncounted, last_req, past_window,
          pre_merge, gap>>

fetch_vars == <<start_dt, end_dt, current, request_count, all_data,
                uncounted, last_req, past_window>>

file_vars == <<file_coinbase, file_combined, pre_merge, final_data>>

----------------------------------------------------------------------------
(* Configuration and the literals of the code.                             *)

DEFAULT_START_DATE == 1735689600     \* '2025-01-01' 00:00:00 UTC
MAX_DAYS_PER_RUN == 7
chunk_hours == 24
max_requests == 500

minutes(n) == 60 * n
hours(n) == 3600 * n
days(n) == 86400 * n

Min(a, b) == IF a < b THEN a ELSE b

----------------------------------------------------------------------------
(* Bounds of the model.                                                    *)

MaxCandles == 2      \* raw candles one fetch invocation accumulates
MaxRows == 2         \* rows the primary store holds
MaxUncounted == 1    \* value at which the uncounted-request tally saturates
MaxTransient == 1    \* 429s and timeouts the provider gives one run of main
MaxStoreRows == 2    \* rows of a store that exists before the first merge

Unlimited == 0 - 1   \* budget of a provider that may fail forever
None == 0 - 1        \* Python's None where an instant is expected

D0 == DEFAULT_START_DATE

\* Instants at which the wall clock is read.
Clock == {D0 + days(2), D0 + days(2) + minutes(5), D0 + days(9)}

\* The clock readings possible once the clock has read t.
Later(t) == {t} \cup {u \in Clock : u > t}

\* The close prices a stored or merged row may carry.
Prices == {100, 999}

\* The close prices the provider quotes in the model.
Quotes == {100}

----------------------------------------------------------------------------
(* DataFrames are sequences of rows; files are records.                    *)

EmptyFrame == <<>>

\* A raw provider record: [timestamp, low, high, open, close, volume].
RawCandle(t, p) == <<t, p - 1, p + 1, p, p, 1>>

\* A record of a decodable payload that lacks a field.
MalformedCandle(t) == <<t, 99, 101, 100, 100>>

\* Line 128: the DataFrame constructor takes records of six fields only.
WellFormed(raws) == \A i \in 1..Len(raws) : Len(raws[i]) = 6

\* Lines 128-135: name the positional fields, read the timestamp as epoch
\* seconds, reorder to the canonical columns and tag the source.
Normalize(raw) ==
    [timestamp |-> raw[1], open |-> raw[4], high |-> raw[3], low |-> raw[2],
     close |-> raw[5], volume |-> raw[6], source |-> "coinbase"]

Timestamps(df) == {df[i].timestamp : i \in 1..Len(df)}

IsSorted(df) ==
    \A i, j \in 1..Len(df) : i < j => df[i].timestamp <= df[j].timestamp

HasDuplicates(df) ==
    \E i, j \in 1..Len(df) : i # j /\ df[i].timestamp = df[j].timestamp

MaxTimestamp(df) ==
    CHOOSE t \in Timestamps(df) : \A u \in Timestamps(df) : u <= t

\* A frame left in the order it was built.
sort_values_unsorted(df) == {df}

\* df.sort_values('timestamp').reset_index(drop=True).  The default sort
\* kind is quicksort, which is not stable: rows with equal timestamps may
\* come out in any order, so the result is one of a set.
sort_values(df) ==
    {s \in {[i \in 1..Len(df) |-> df[f[i]]] : f \in Permutations(1..Len(df))} :
        IsSorted(s)}

\* The rows of df at the ascending indices in keep.
RECURSIVE TakeRows(_, _, _)
TakeRows(df, keep, i) ==
    IF i > Len(df) THEN <<>>
    ELSE (IF i \in keep THEN <<df[i]>> ELSE <<>>) \o TakeRows(df, keep, i + 1)

\* keep='last' in place of keep='first'.
drop_duplicates_last(df) ==
    TakeRows(df,
             {i \in 1..Len(df) :
                 \A j \in (i + 1)..Len(df) :
                     df[j].timestamp # df[i].timestamp},
             1)

\* df.drop_duplicates(subset=['timestamp'], keep='first')
drop_duplicates(df) ==
    TakeRows(df,
             {i \in 1..Len(df) :
                 \A j \in 1..(i - 1) : df[j].timestamp # df[i].timestamp},
             1)

AbsentFile == [kind |-> "absent", rows |-> <<>>]

exists(file) == file.kind # "absent"

\* df.to_csv(path, index=False): header line plus one line per row.
to_csv(df) == [kind |-> "csv", rows |-> df]

\* pd.read_csv(path) raises on a file it cannot parse.
read_csv_raises(file) == file.kind = "unreadable"

\* Selecting or parsing the 'timestamp' column raises when it is missing.
timestamp_raises(file) == file.kind \in {"unreadable", "no_timestamp"}

read_csv(file) == file.rows

get_last_timestamp(file) ==
    IF ~exists(file) THEN None
    ELSE IF read_csv_raises(file) THEN None
    ELSE IF read_csv(file) = EmptyFrame \/ file.kind = "no_timestamp" THEN None
    ELSE MaxTimestamp(read_csv(file))

\* update_dataset that writes the new rows over the existing file.
update_dataset_overwrite(file, nd) ==
    IF nd = EmptyFrame
    THEN IF exists(file)
         THEN IF timestamp_raises(file)
              THEN {[file |-> file, ret |-> EmptyFrame, raised |-> TRUE]}
              ELSE {[file |-> file, ret |-> read_csv(file), raised |-> FALSE]}
         ELSE {[file |-> file, ret |-> EmptyFrame, raised |-> FALSE]}
    ELSE IF exists(file) /\ timestamp_raises(file)
         THEN {[file |-> file, ret |-> EmptyFrame, raised |-> TRUE]}
         ELSE {[file |-> to_csv(s), ret |-> s, raised |-> FALSE] :
                  s \in sort_values(nd)}

\* update_dataset(filename, new_data): the set of possible results, each
\* the file afterwards, the returned frame and whether the call raised.
update_dataset(file, nd) ==
    IF nd = EmptyFrame
    THEN IF exists(file)
         THEN IF timestamp_raises(file)
              THEN {[file |-> file, ret |-> EmptyFrame, raised |-> TRUE]}
              ELSE {[file |-> file, ret |-> read_csv(file), raised |-> FALSE]}
         ELSE {[file |-> file, ret |-> EmptyFrame, raised |-> FALSE]}
    ELSE IF exists(file) /\ timestamp_raises(file)
         THEN {[file |-> file, ret |-> EmptyFrame, raised |-> TRUE]}
         ELSE LET combined == IF exists(file)
                              THEN drop_duplicates(read_csv(file) \o nd)
                              ELSE nd
              IN  {[file |-> to_csv(s), ret |-> s, raised |-> FALSE] :
                      s \in sort_values(combined)}

----------------------------------------------------------------------------
(* fetch_coinbase_data(start_dt, end_dt)                                   *)

\* A chunk end that is not clipped to the end of the window.
chunk_end_unclipped(cur, end) == cur + hours(chunk_hours)

\* Line 78: the end of the chunk that starts at cur, before the clock clip.
chunk_end_of(cur, end) == Min(cur + hours(chunk_hours), end)

\* Lines 84-85: never ask for data after the clock.
clip_to_now(chunk_end, clock) == IF chunk_end > clock THEN clock ELSE chunk_end

\* Line 77: the loop condition.
loop_condition(cur, end, count) == cur < end /\ count < max_requests

\* Non-empty JSON payloads the provider may send for the request [s, e]:
\* candles on the two boundaries, most recent first.
Payloads(s, e) ==
    {<<RawCandle(t, p)>> : t \in {s, e}, p \in Quotes}
        \cup {<<RawCandle(e, p), RawCandle(s, p)>> : p \in Quotes}

\* Lines 70-75: the locals at entry.
FetchEntry(s, e) ==
    /\ start_dt' = s
    /\ end_dt' = e
    /\ all_data' = <<>>
    /\ current' = s
    /\ request_count' = 0
    /\ uncounted' = 0
    /\ last_req' = <<>>
    /\ past_window' = (e <= now)

Tally(n) == IF n < MaxUncounted THEN n + 1 ELSE n

Untracked == <<None>>

\* A cursor that moves on after every request.
next_cursor_always(retried, cur, chunk_end) == chunk_end

\* Lines 108 and 115 (continue) against line 119.
next_cursor(retried, cur, chunk_end) == IF retried THEN cur ELSE chunk_end

\* The sleep that ends the pass: line 107, 114 or 120.
sleep_after(outcome) ==
    IF outcome = "rate_limited" THEN "sleep_429"
    ELSE IF outcome = "timeout" THEN "sleep_timeout"
    ELSE "sleep_rate"

Sleeps == {"sleep_429", "sleep_timeout", "sleep_rate"}

Spend(b) == IF b > 0 THEN b - 1 ELSE b

\* One pass of the loop body from line 78 to the sleep that ends it, for
\* one provider outcome.
Request(outcome, payload) ==
    /\ pc = "loop"
    /\ loop_condition(current, end_dt, request_count)
    /\ ~(current > now)
    /\ LET chunk_end == clip_to_now(chunk_end_of(current, end_dt), now)
           counted == outcome \notin {"timeout", "exception"}
           retried == outcome \in {"rate_limited", "timeout"}
       IN  /\ retried => budget # 0
           /\ outcome = "data" => payload \in Payloads(current, chunk_end)
           /\ outcome = "malformed" => payload = <<MalformedCandle(current)>>
           /\ outcome \in {"data", "malformed"} =>
                 /\ Len(payload) <= supply
                 /\ Len(file_coinbase.rows) + Len(all_data) + Len(payload)
                       <= MaxRows
           /\ outcome \notin {"data", "malformed"} => payload = <<>>
           /\ last_req' = <<current, chunk_end>>
           /\ request_count' = IF counted THEN request_count + 1
                               ELSE request_count
           /\ uncounted' = IF counted THEN uncounted ELSE Tally(uncounted)
           /\ all_data' = all_data \o payload
           /\ current' = next_cursor(retried, current, chunk_end)
           /\ gap' = IF gap # Untracked
                         /\ outcome \in {"http_error", "exception"}
                      THEN <<current, chunk_end>> ELSE gap
           /\ budget' = IF retried THEN Spend(budget) ELSE budget
           /\ supply' = supply - Len(payload)
    /\ pc' = sleep_after(outcome)
    /\ UNCHANGED <<start_dt, end_dt, past_window, now, caller, new_data,
                   exit_via, file_vars>>

\* Line 100: HTTP 200 with a non-empty payload.
FetchData ==
    \E payload \in Payloads(current,
                            clip_to_now(chunk_end_of(current, end_dt), now)) :
        Request("data", payload)

\* Line 100: HTTP 200 with a non-empty payload of the wrong shape.
FetchMalformed == Request("malformed", <<MalformedCandle(current)>>)

\* Line 103: HTTP 200 with an empty payload.
FetchEmpty == Request("empty", <<>>)

\* Line 99 raises: HTTP 200 whose body is not JSON; caught at line 116.
FetchBadJson == Request("bad_json", <<>>)

\* Line 105: HTTP 429.
FetchRateLimited == Request("rate_limited", <<>>)

\* Line 109: any other status.
FetchHttpError == Request("http_error", <<>>)

\* Line 112: requests.get raised Timeout.
FetchTimeout == Request("timeout", <<>>)

\* Line 116: requests.get raised another exception.
FetchException == Request("exception", <<>>)

\* time.sleep at line 107, 114 or 120 returns; the clock has moved on.
Wake ==
    /\ pc \in Sleeps
    /\ now' \in Later(now)
    /\ pc' = "loop"
    /\ UNCHANGED <<fetch_vars, caller, new_data, exit_via, budget, supply,
                   file_vars, gap>>

\* Line 77 false, or the break at line 83.
LoopExit ==
    /\ pc = "loop"
    /\ ~loop_condition(current, end_dt, request_count) \/ current > now
    /\ pc' = "convert"
    /\ UNCHANGED <<fetch_vars, now, caller, new_data, exit_via, budget, supply,
                   file_vars, gap>>

NormalizeAll(raws) == [i \in 1..Len(raws) |-> Normalize(raws[i])]

\* Lines 122-139.  The DataFrame constructor at line 128 raises on a record
\* that has not six fields; nothing catches it, in the fetch or in main.
FetchReturn ==
    /\ pc = "convert"
    /\ IF all_data = <<>>
       THEN /\ new_data' = EmptyFrame
            /\ pc' = IF caller = "main" THEN "merge" ELSE "returned"
            /\ UNCHANGED exit_via
       ELSE IF WellFormed(all_data)
       THEN /\ new_data' \in sort_values(NormalizeAll(all_data))
            /\ pc' = IF caller = "main" THEN "merge" ELSE "returned"
            /\ UNCHANGED exit_via
       ELSE /\ new_data' = new_data
            /\ pc' = IF caller = "main" THEN "exit" ELSE "fetch_raised"
            /\ exit_via' = IF caller = "main" THEN "fetch_raised"
                           ELSE exit_via
    /\ UNCHANGED <<fetch_vars, now, caller, budget, supply, file_vars, gap>>

----------------------------------------------------------------------------
(* main()                                                                  *)

\* Resuming at the last stored candle itself.
resume_start_same(last_ts) == last_ts

\* Line 196.
resume_start(last_ts) == last_ts + minutes(5)

\* A start that ignores the store.
determine_start_default(last_ts) == DEFAULT_START_DATE

\* Lines 194-201.
determine_start(last_ts) ==
    IF last_ts # None THEN resume_start(last_ts) ELSE DEFAULT_START_DATE

\* An end without the cap.
determine_end_uncapped(start, clock) == clock

\* Lines 204-208.
determine_end(start, clock) ==
    LET max_end == start + days(MAX_DAYS_PER_RUN)
    IN  IF clock > max_end THEN max_end ELSE clock

\* A strict comparison at line 212.
up_to_date_strict(start, end) == start > end

\* Line 212.
up_to_date(start, end) == start >= end

\* Lines 189-217: from entry to the early return or the call of the fetch.
MainStart ==
    /\ pc = "idle"
    /\ LET start == determine_start(get_last_timestamp(file_coinbase))
           end == determine_end(start, now)
       IN  IF up_to_date(start, end)
           THEN /\ pc' = "exit"
                /\ exit_via' = "up_to_date"
                /\ start_dt' = start
                /\ end_dt' = end
                /\ UNCHANGED <<current, request_count, all_data, uncounted,
                               last_req, past_window>>
           ELSE /\ pc' = "loop"
                /\ exit_via' = "none"
                /\ FetchEntry(start, end)
    /\ UNCHANGED <<now, caller, new_data, budget, supply, file_vars, gap>>

\* A mirror that is never written.
write_combined_never(ret, old) == old

\* Lines 223-225: the mirror is written only from a non-empty frame.
write_combined(ret, old) == IF ret # EmptyFrame THEN to_csv(ret) ELSE old

\* Lines 220-239: merge, mirror, summary.
MainMerge ==
    /\ pc = "merge"
    /\ \E r \in update_dataset(file_coinbase, new_data) :
          /\ pre_merge' = file_coinbase
          /\ file_coinbase' = r.file
          /\ final_data' = r.ret
          /\ file_combined' = IF r.raised THEN file_combined
                              ELSE write_combined(r.ret, file_combined)
          /\ exit_via' = IF r.raised THEN "raised" ELSE "report"
    /\ pc' = "exit"
    /\ UNCHANGED <<fetch_vars, now, caller, new_data, budget, supply, gap>>

\* sys.exit(main()): 0 unless an exception escaped.
exit_code == IF exit_via \in {"raised", "fetch_raised"} THEN 1 ELSE 0

\* The store holds data at or after the end of the skipped chunk g.
Persisted(g, file) ==
    /\ get_last_timestamp(file) # None
    /\ get_last_timestamp(file) >= g[2]

\* The scheduler starts the next process some time later: only the files
\* outlive the process that ended.
NextRun ==
    /\ pc = "exit"
    /\ now' \in Later(now)
    /\ pc' = "idle"
    /\ start_dt' = None
    /\ end_dt' = None
    /\ current' = None
    /\ request_count' = 0
    /\ all_data' = <<>>
    /\ new_data' = EmptyFrame
    /\ final_data' = EmptyFrame
    /\ exit_via' = "none"
    /\ uncounted' = 0
    /\ last_req' = <<>>
    /\ past_window' = TRUE
    /\ budget' = MaxTransient
    /\ supply' = MaxCandles
    /\ gap' = IF gap \in {Untracked, <<>>} \/ Persisted(gap, file_coinbase)
               THEN gap ELSE <<>>
    /\ pre_merge' = file_coinbase
    /\ UNCHANGED <<caller, file_coinbase, file_combined>>

Init ==
    /\ file_coinbase = AbsentFile
    /\ file_combined = AbsentFile
    /\ now \in Clock
    /\ pc = "idle"
    /\ caller = "main"
    /\ start_dt = None
    /\ end_dt = None
    /\ current = None
    /\ request_count = 0
    /\ all_data = <<>>
    /\ new_data = EmptyFrame
    /\ final_data = EmptyFrame
    /\ exit_via = "none"
    /\ budget = MaxTransient
    /\ supply = MaxCandles
    /\ uncounted = 0
    /\ last_req = <<>>
    /\ past_window = TRUE
    /\ pre_merge = AbsentFile
    /\ gap = Untracked

Next ==
    \/ MainStart
    \/ FetchData
    \/ FetchMalformed
    \/ FetchEmpty
    \/ FetchBadJson
    \/ FetchRateLimited
    \/ FetchHttpError
    \/ FetchTimeout
    \/ FetchException
    \/ Wake
    \/ LoopExit
    \/ FetchReturn
    \/ MainMerge
    \/ NextRun

Spec == Init /\ [][Next]_vars

\* The pipeline from its first run at the earliest instant, with the chunk
\* skipped last on record.
InitGap ==
    /\ file_coinbase = AbsentFile
    /\ file_combined = AbsentFile
    /\ now = D0 + days(2)
    /\ pc = "idle"
    /\ caller = "main"
    /\ start_dt = None
    /\ end_dt = None
    /\ current = None
    /\ request_count = 0
    /\ all_data = <<>>
    /\ new_data = EmptyFrame
    /\ final_data = EmptyFrame
    /\ exit_via = "none"
    /\ budget = MaxTransient
    /\ supply = MaxCandles
    /\ uncounted = 0
    /\ last_req = <<>>
    /\ past_window = TRUE
    /\ pre_merge = AbsentFile
    /\ gap = <<>>

SpecGap == InitGap /\ [][Next]_vars

\* The pipeline started on whatever the data directory holds: no store, a
\* file that does not parse, a table without the timestamp column, a table
\* of one row; the mirror absent or holding that row.
FoundRow == Normalize(RawCandle(D0 + days(2), 999))

FoundStores ==
    {AbsentFile, [kind |-> "unreadable", rows |-> <<>>],
     [kind |-> "no_timestamp", rows |-> <<>>], to_csv(<<FoundRow>>)}

InitAnyStore ==
    /\ file_coinbase \in FoundStores
    /\ file_combined \in {AbsentFile, to_csv(<<FoundRow>>)}
    /\ now \in Clock
    /\ pc = "idle"
    /\ caller = "main"
    /\ start_dt = None
    /\ end_dt = None
    /\ current = None
    /\ request_count = 0
    /\ all_data = <<>>
    /\ new_data = EmptyFrame
    /\ final_data = EmptyFrame
    /\ exit_via = "none"
    /\ budget = MaxTransient
    /\ supply = MaxCandles
    /\ uncounted = 0
    /\ last_req = <<>>
    /\ past_window = TRUE
    /\ pre_merge = file_coinbase
    /\ gap = Untracked

SpecAnyStore == InitAnyStore /\ [][Next]_vars

----------------------------------------------------------------------------
(* fetch_coinbase_data called on its own, on any window.                   *)

FetchStarts == {D0, D0 + days(2) + minutes(5), D0 + days(3)}

FetchEnds == {D0 + days(2) + minutes(10), D0 + days(3)}

InitFetch ==
    /\ file_coinbase = AbsentFile
    /\ file_combined = AbsentFile
    /\ now \in Clock
    /\ pc = "loop"
    /\ caller = "direct"
    /\ start_dt \in FetchStarts
    /\ end_dt \in FetchEnds
    /\ current = start_dt
    /\ request_count = 0
    /\ all_data = <<>>
    /\ new_data = EmptyFrame
    /\ final_data = EmptyFrame
    /\ exit_via = "none"
    /\ budget = Unlimited
    /\ supply = MaxCandles
    /\ uncounted = 0
    /\ last_req = <<>>
    /\ past_window = (end_dt <= now)
    /\ pre_merge = AbsentFile
    /\ gap = Untracked

NextFetch ==
    \/ FetchData
    \/ FetchMalformed
    \/ FetchEmpty
    \/ FetchBadJson
    \/ FetchRateLimited
    \/ FetchHttpError
    \/ FetchTimeout
    \/ FetchException
    \/ Wake
    \/ LoopExit
    \/ FetchReturn

SpecFetch == InitFetch /\ [][NextFetch]_vars

\* A sleep that lets the clock move on.
ClockAdvances == Wake /\ now' > now

\* The loop body and the sleeps always run to their end, and time passes:
\* of infinitely many sleeps, some see the clock advance while it can.
FairSpecFetch ==
    SpecFetch /\ WF_vars(NextFetch) /\ SF_vars(ClockAdvances)

----------------------------------------------------------------------------
(* fetch_coinbase_data against a provider that answers every request with  *)
(* HTTP 200, on the windows above and on one window of more chunks than    *)
(* max_requests.                                                           *)

LongEnd == D0 + days(max_requests + 1)

Init200 ==
    /\ file_coinbase = AbsentFile
    /\ file_combined = AbsentFile
    /\ pc = "loop"
    /\ caller = "direct"
    /\ \/ /\ start_dt \in FetchStarts
          /\ end_dt \in FetchEnds
          /\ now \in Clock
          /\ supply = MaxCandles
       \/ /\ start_dt = D0
          /\ end_dt = LongEnd
          /\ now = LongEnd
          /\ supply = 0
    /\ current = start_dt
    /\ request_count = 0
    /\ all_data = <<>>
    /\ new_data = EmptyFrame
    /\ final_data = EmptyFrame
    /\ exit_via = "none"
    /\ budget = 0
    /\ uncounted = 0
    /\ last_req = <<>>
    /\ past_window = (end_dt <= now)
    /\ pre_merge = AbsentFile
    /\ gap = Untracked

Next200 ==
    \/ FetchData
    \/ FetchMalformed
    \/ FetchEmpty
    \/ FetchBadJson
    \/ Wake
    \/ LoopExit
    \/ FetchReturn

Spec200 == Init200 /\ [][Next200]_vars

----------------------------------------------------------------------------
(* update_dataset called on its own: any store, any batch a fetch can      *)
(* return, the same batch merged a second time, then further batches.      *)

MergeTimes == {D0, D0 + minutes(5)}

Rows == {Normalize(RawCandle(t, p)) : t \in MergeTimes, p \in Prices}

SeqsUpTo(S, n) == UNION {[1..k -> S] : k \in 0..n}

\* A fetch returns its rows sorted, possibly with repeated timestamps.
Batches == {b \in SeqsUpTo(Rows, MaxCandles) : IsSorted(b)}

MergeStores ==
    {AbsentFile, [kind |-> "unreadable", rows |-> <<>>],
     [kind |-> "no_timestamp", rows |-> <<>>]}
        \cup {to_csv(df) : df \in SeqsUpTo(Rows, MaxStoreRows)}

InitMerge ==
    /\ file_coinbase \in MergeStores
    /\ file_combined = AbsentFile
    /\ now \in {D0 + days(2)}
    /\ pc = "merge_call"
    /\ caller = "direct"
    /\ start_dt = None
    /\ end_dt = None
    /\ current = None
    /\ request_count = 0
    /\ all_data = <<>>
    /\ new_data \in Batches
    /\ final_data = EmptyFrame
    /\ exit_via = "none"
    /\ budget = 0
    /\ supply = 0
    /\ uncounted = 0
    /\ last_req = <<>>
    /\ past_window = TRUE
    /\ pre_merge = AbsentFile
    /\ gap = Untracked

\* update_dataset(FILE_COINBASE, new_data), lines 152-180; called a second
\* time with the same batch when the first call has returned.
MergeCall ==
    /\ pc \in {"merge_call", "merged"}
    /\ \E r \in update_dataset(file_coinbase, new_data) :
          /\ pre_merge' = file_coinbase
          /\ file_coinbase' = r.file
          /\ final_data' = r.ret
          /\ pc' = IF r.raised THEN "raised"
                   ELSE IF pc = "merge_call" THEN "merged" ELSE "remerged"
    /\ UNCHANGED <<fetch_vars, now, caller, new_data, exit_via, budget, supply,
                   file_combined, gap>>

\* The next batch arrives.
NewBatch ==
    /\ pc \in {"merged", "remerged"}
    /\ new_data' \in Batches
    /\ pc' = "merge_call"
    /\ UNCHANGED <<fetch_vars, now, caller, exit_via, budget, supply,
                   file_vars, gap>>

NextMerge == MergeCall \/ NewBatch

SpecMerge == InitMerge /\ [][NextMerge]_vars

----------------------------------------------------------------------------
(* Properties.                                                             *)

\* Calls of requests.get made by the running fetch (a lower bound once the
\* tally of uncounted calls has saturated).
Issued == request_count + uncounted

RowsAt(df, T) == SelectSeq(df, LAMBDA r : r.timestamp = T)

FirstAt(df, T) == RowsAt(df, T)[1]

RowSet(df) == {df[i] : i \in 1..Len(df)}

Ceil(a, b) == (a + b - 1) \div b

ChunkCount(s, e) == IF e <= s THEN 0 ELSE Ceil(e - s, hours(24))

\* C1: every invocation of the fetch on a finite window eventually returns,
\* whatever the provider answers, also when it times out on every request.
FetchTerminates == <>(pc \in {"returned", "fetch_raised"})

\* C2: one invocation never issues more than 500 request attempts, counting
\* every HTTP call whatever its outcome.
RequestCeiling == Issued <= 500

\* C3: after a merge that persisted the store, no two rows of the store
\* share a timestamp.
UniqueTimestamps ==
    (pc = "exit" /\ exit_via = "report" /\ new_data # EmptyFrame)
        => ~HasDuplicates(file_coinbase.rows)

\* C4: the primary store and the combined mirror are always sorted by
\* timestamp, non-decreasing, over any sequence of runs from an absent store.
StoresSorted == IsSorted(file_coinbase.rows) /\ IsSorted(file_combined.rows)

StoresSortedWitness ==
    /\ pc = "exit"
    /\ exit_via = "report"
    /\ Len(file_coinbase.rows) >= 2
    /\ Cardinality(Timestamps(file_coinbase.rows)) >= 2
    /\ file_combined = file_coinbase
    /\ exists(pre_merge)

\* C5: for every timestamp T in both the existing store and the incoming
\* batch, the merged store holds at T one row, the existing (first) row at T.
IncumbentPriority ==
    pc \in {"merged", "remerged"} =>
        \A T \in Timestamps(pre_merge.rows) \cap Timestamps(new_data) :
            RowsAt(file_coinbase.rows, T) = <<FirstAt(pre_merge.rows, T)>>

IncumbentPriorityWitness ==
    /\ pc = "merged"
    /\ \E T \in Timestamps(pre_merge.rows) \cap Timestamps(new_data) :
          /\ FirstAt(pre_merge.rows, T).close = 100
          /\ FirstAt(new_data, T).close = 999
          /\ FirstAt(file_coinbase.rows, T).close = 100

MergeIdempotent == pc = "remerged" => file_coinbase = pre_merge

\* C8: the fetch window of a run starts 5 minutes after the maximum
\* timestamp of a readable store, and at the default epoch when there is no
\* store or no resume point.
ResumeCorrectness ==
    (pc \in {"loop", "convert", "merge"} \cup Sleeps
        \/ (pc = "exit" /\ exit_via = "up_to_date"))
    => start_dt = IF file_coinbase.kind = "csv" /\ file_coinbase.rows # <<>>
                  THEN MaxTimestamp(file_coinbase.rows) + 300
                  ELSE 1735689600

ResumeCorrectnessWitness ==
    /\ pc \in Sleeps
    /\ file_coinbase.kind = "csv"
    /\ file_coinbase.rows # <<>>
    /\ start_dt = MaxTimestamp(file_coinbase.rows) + 300
    /\ last_req # <<>>
    /\ last_req[1] = start_dt

\* C9: a run that finds the store's maximum timestamp T with T + 5 minutes
\* >= now ends at the up-to-date check with exit code 0, issues no request
\* and leaves both stores as they were.
NoOpUpToDate ==
    [][(/\ pc = "idle"
        /\ file_coinbase.kind = "csv"
        /\ file_coinbase.rows # <<>>
        /\ MaxTimestamp(file_coinbase.rows) + 300 >= now)
       => (/\ pc' = "exit"
           /\ exit_via' = "up_to_date"
           /\ exit_code' = 0
           /\ Issued' = Issued
           /\ last_req' = last_req
           /\ file_coinbase' = file_coinbase
           /\ file_combined' = file_combined)]_vars

NoOpUpToDateWitness ==
    /\ pc = "exit"
    /\ exit_via = "up_to_date"
    /\ file_coinbase.rows # <<>>
    /\ MaxTimestamp(file_coinbase.rows) + 300 = now

\* What every request of a fetch answered with 200 covers: the k-th request
\* (k from 0) is [start + k*24h, min(start + (k+1)*24h, end)).
RequestsPartition ==
    last_req # <<>> =>
        last_req = <<start_dt + (Issued - 1) * hours(24),
                     Min(start_dt + Issued * hours(24), end_dt)>>

\* C10 as stated: on a window in the past, with every request answered 200,
\* the fetch issues exactly ceil((end - start) / 24h) requests, the k-th one
\* covering the k-th 24-hour chunk clipped to end.
PartitionCoverage ==
    past_window =>
        /\ RequestsPartition
        /\ pc \in {"returned", "fetch_raised"} =>
              Issued = ChunkCount(start_dt, end_dt)

\* C10 amended: the number of requests is ceil((end - start) / 24h) capped
\* at the ceiling of 500; the k-th request covers the k-th chunk.
PartitionCoverageCapped ==
    past_window =>
        /\ RequestsPartition
        /\ pc \in {"returned", "fetch_raised"} =>
              Issued = Min(ChunkCount(start_dt, end_dt), 500)

PartitionCoverageWitness ==
    /\ pc = "returned"
    /\ past_window
    /\ Issued = 3
    /\ last_req = <<start_dt + 2 * hours(24), end_dt>>
    /\ end_dt < start_dt + 3 * hours(24)

\* C11: no request is issued for a chunk that starts at or after the instant
\* of the request, and the end of every request is clipped to that instant.
\* The clock moves only on waking, so while the fetch sleeps `now` is still
\* the instant line 81 read for the request on record.
FutureDataGuard ==
    pc \in Sleeps => (last_req[1] < now /\ last_req[2] <= now)

\* C12: the rows a fetch returns are ascending by timestamp and no two of
\* them share a timestamp.
FetchSortedDeduplicated ==
    pc = "returned" => (IsSorted(new_data) /\ ~HasDuplicates(new_data))

\* C14: the fetch never raises to its caller, whatever the provider sends,
\* and returns exactly the normalized records of the non-empty 200 payloads.
FetchNeverRaises ==
    /\ pc # "fetch_raised"
    /\ pc = "returned" =>
          /\ Len(new_data) = Len(all_data)
          /\ RowSet(new_data) = RowSet(NormalizeAll(all_data))

\* C15: a 429 or a timeout leaves the cursor and the row buffer as they were,
\* the 429 is counted, the sleep that follows does not move the cursor, and
\* every request is issued at the cursor: the next request is for the same
\* chunk start.
RetryInPlace ==
    [][/\ (pc = "loop" /\ pc' \in {"sleep_429", "sleep_timeout"}) =>
              /\ current' = current
              /\ all_data' = all_data
              /\ pc' = "sleep_429" => request_count' = request_count + 1
       /\ (pc \in Sleeps /\ pc' = "loop") => current' = current
       /\ (pc = "loop" /\ pc' \in Sleeps) => last_req'[1] = current]_vars

\* A 429 on the second chunk, with the first chunk's rows in the buffer.
RetryInPlaceWitness ==
    /\ pc = "sleep_429"
    /\ all_data # <<>>
    /\ last_req[1] = current
    /\ current > start_dt
    /\ request_count = 2

\* C17: within one invocation no request starts earlier than the one before,
\* and every advance past a chunk strictly increases the cursor.
StrictlyIncreasingChunks ==
    [][(pc = "loop" /\ pc' \in Sleeps) =>
          /\ last_req # <<>> => last_req'[1] >= last_req[1]
          /\ pc' = "sleep_rate" => current' > current]_vars

\* C16: a chunk answered with an error status or a transport exception is
\* left behind: the cursor moves to its end and nothing is buffered; no later
\* request of the run starts before its end; and once later data is
\* persisted, every later run starts after the persisted maximum, at or
\* after the end of the skipped chunk, and requests nothing before it.
SkipLeavesGap ==
    [][/\ (pc = "loop" /\ pc' \in Sleeps /\ gap' # gap) =>
              /\ pc' = "sleep_rate"
              /\ gap' = <<current, current'>>
              /\ current' > current
              /\ all_data' = all_data
       /\ (pc = "loop" /\ pc' \in Sleeps /\ gap \notin {<<>>, Untracked}) =>
              last_req'[1] >= gap[2]
       /\ (pc = "idle" /\ gap \notin {<<>>, Untracked}) =>
              /\ start_dt' > get_last_timestamp(file_coinbase)
              /\ start_dt' >= gap[2]]_vars

\* A request of a later run, beyond a chunk an earlier run skipped.
SkipLeavesGapWitness ==
    /\ pc \in Sleeps
    /\ gap \notin {<<>>, Untracked}
    /\ gap[2] <= start_dt
    /\ Timestamps(read_csv(file_coinbase)) # {}
    /\ \A t \in Timestamps(read_csv(file_coinbase)) : t >= gap[2]

\* C18: a run that reaches the fetch has end = min(now, start + 7 days),
\* start < end, end - start <= 7 days and end <= now.
WindowCap ==
    [][(pc = "idle" /\ pc' = "loop") =>
          /\ end_dt' = Min(now, start_dt' + days(7))
          /\ start_dt' < end_dt'
          /\ end_dt' - start_dt' <= days(7)
          /\ end_dt' <= now]_vars

\* A run whose window the cap cut short of now.
WindowCapWitness ==
    /\ pc = "loop"
    /\ request_count = 0
    /\ last_req = <<>>
    /\ end_dt = start_dt + days(7)
    /\ end_dt < now

\* C13: a store that is present but unreadable or without the timestamp
\* column counts as no prior data: the run starts from the default backfill
\* date and, whatever the fetch returned, ends at the report with exit
\* code 0.  (A run ended by the fetch raising is left aside.)
MalformedStoreTolerated ==
    (timestamp_raises(file_coinbase) /\ pc # "idle"
     /\ exit_via # "fetch_raised") =>
        /\ start_dt = DEFAULT_START_DATE
        /\ pc = "exit" => (exit_via = "report" /\ exit_code = 0)

\* C19: a run whose fetch returned no rows is not an error, leaves the
\* primary store as it was, and its merge returns the existing rows (none
\* if there is no store).
EmptyFetchUntouched ==
    (pc = "exit" /\ exit_via \in {"report", "raised"}
     /\ new_data = EmptyFrame) =>
        /\ exit_code = 0
        /\ file_coinbase = pre_merge
        /\ final_data = read_csv(pre_merge)

\* C20 as stated: after every run that terminates, the early exit and the
\* runs whose fetch returned nothing included, the combined mirror holds the
\* same row sequence as the primary store.
MirrorEveryRun ==
    pc = "exit" => read_csv(file_combined) = read_csv(file_coinbase)

\* C20 amended: a run that reaches the report with a non-empty merged frame
\* overwrites the mirror with it, and the mirror then holds the same row
\* sequence as the primary store; every other run leaves the mirror as it
\* was.
MirrorOnReport ==
    [][(pc # "exit" /\ pc' = "exit") =>
          IF exit_via' = "report" /\ final_data' # EmptyFrame
          THEN /\ file_combined' = to_csv(final_data')
               /\ read_csv(file_combined') = read_csv(file_coinbase')
          ELSE file_combined' = file_combined]_vars

\* A report after which the mirror holds more rows than it was found with.
MirrorOnReportWitness ==
    /\ pc = "exit"
    /\ exit_via = "report"
    /\ Len(read_csv(file_combined)) = 2
    /\ file_combined = file_coinbase

====
